---- MODULE Spec2Model ----
(***************************************************************************)
(* Model of src/src/components/Testing.tsx (the PDFViewer component): the  *)
(* annotation capture handlers, the coordinate projector and the export    *)
(* pipeline (downloadAnnotatedPDF).                                        *)
(*                                                                         *)
(* Numbers.  JavaScript numbers are modelled as exact extended rationals   *)
(* [n |-> numerator, d |-> denominator] in lowest terms with d >= 0:       *)
(* d = 0 encodes the non-finite values (1/0 = Infinity, -1/0 = -Infinity,  *)
(* 0/0 = NaN).  Floating-point rounding and the sign of zero are not       *)
(* modelled.                                                               *)
(*                                                                         *)
(* State left out: currentDrawing and currentHighlight (lines 42-46) are   *)
(* written by the handlers and read nowhere; isDarkTheme (line 52) and the *)
(* top/left fields of overlayDimensions only style the page.               *)
(*                                                                         *)
(* Each handler is one atomic step: React runs an event handler to its end *)
(* and re-renders before the next event, and every handler closes over the *)
(* state of the latest render.  The export is the one asynchronous         *)
(* operation; it is split at its awaits.                                   *)
(***************************************************************************)
EXTENDS Integers, Sequences, FiniteSets, TLC

VARIABLES
    currentTool,        \* Testing.tsx:53  'select' | 'draw' | 'highlight' | 'text'
    annotations,        \* Testing.tsx:56  committed annotation sequence
    isDrawing,          \* Testing.tsx:57
    currentPath,        \* Testing.tsx:58  in-progress freehand path
    highlightInfo,      \* Testing.tsx:59  in-progress highlight or null
    annotationColor,    \* Testing.tsx:63
    isModalOpen,        \* Testing.tsx:64
    modalText,          \* Testing.tsx:65
    modalPosition,      \* Testing.tsx:66
    overlayDimensions,  \* Testing.tsx:69  width/height of the overlay surface
    pdfPage,            \* size of page 0 of the document behind pdfUrl (Testing.tsx:270)
    exports,            \* one record per invocation of downloadAnnotatedPDF
    downloads,          \* indices of exports whose artifact reached link.click()
    gesture,            \* history: phase of the pointer gesture ("none" once the
                        \* tool changed or outside draw/highlight; "down", "moved",
                        \* "ended" by the first up/leave, "idle" by further ones)
    events,             \* history: number of user events handled so far
    clearedInGesture,   \* history: Clear All was clicked since the latest pointer-down
                        \* while that gesture was in progress
    projCall            \* arguments and result of a direct call of the projector,
                        \* the drawing loop or hexToRgb

vars == <<currentTool, annotations, isDrawing, currentPath, highlightInfo,
          annotationColor, isModalOpen, modalText, modalPosition,
          overlayDimensions, pdfPage, exports, downloads, gesture, events,
          clearedInGesture, projCall>>

captureVars == <<currentTool, annotations, isDrawing, currentPath, highlightInfo,
                 annotationColor, isModalOpen, modalText, modalPosition>>

-----------------------------------------------------------------------------
(* Bounds of the model *)

\* user events (pointer, toolbar, dialog, resize) handled in one behaviour
MaxEvents == 6

\* largest viewport / page dimension drawn for direct projector calls
MaxDim == 3

\* invocations of the export in one behaviour
MaxExports == 2

\* optional values: null is the empty sequence, a present value v is <<v>>
null == <<>>

Some(v) == <<v>>

\* the tool buttons of the toolbar (no control selects 'select')
Tools == {"highlight", "draw", "text"}

\* '#RRGGBB' strings as character sequences
Yellow == <<"#", "F", "F", "F", "F", "0", "0">>

Red == <<"#", "f", "f", "0", "0", "0", "0">>

Colors == {Yellow, Red}

\* pointer positions relative to the overlay's top-left corner
Points == {[x |-> 50, y |-> 0], [x |-> 150, y |-> 100]}

\* contents of the dialog's textarea
Texts == {"", "note"}

\* bounding boxes the iframe reports on load / resize
OverlaySizes == {[width |-> 200, height |-> 100], [width |-> 200, height |-> 200]}

\* page sizes of the document behind pdfUrl
PdfSizes == {[width |-> 100, height |-> 100]}

-----------------------------------------------------------------------------
(* Extended rational arithmetic: JavaScript's number operations *)

Abs(i) == IF i < 0 THEN -i ELSE i

Sgn(i) == IF i < 0 THEN -1 ELSE IF i > 0 THEN 1 ELSE 0

RECURSIVE GCD(_, _)
GCD(a, b) == IF b = 0 THEN a ELSE GCD(b, a % b)

\* n/d with d >= 0, reduced; d = 0 gives Infinity, -Infinity or NaN by sign of n
Norm(n, d) ==
    IF d = 0 THEN [n |-> Sgn(n), d |-> 0]
    ELSE LET g == GCD(Abs(n), d) IN [n |-> n \div g, d |-> d \div g]

R(i) == [n |-> i, d |-> 1]

NaN == [n |-> 0, d |-> 0]

IsNaN(a) == a.n = 0 /\ a.d = 0

IsFinite(a) == a.d # 0

\* a * b
NumMul(a, b) == Norm(a.n * b.n, a.d * b.d)

\* a / b  (x / 0 is Infinity with the sign of x, 0 / 0 is NaN)
NumDiv(a, b) ==
    LET s == IF b.n < 0 THEN -1 ELSE 1
    IN  Norm(a.n * b.d * s, a.d * Abs(b.n))

\* a + b  (Infinity + -Infinity is NaN)
NumAdd(a, b) ==
    IF a.d = 0 /\ b.d = 0
    THEN IF a.n = b.n THEN a ELSE NaN
    ELSE Norm(a.n * b.d + b.n * a.d, a.d * b.d)

NumNeg(a) == [n |-> -a.n, d |-> a.d]

\* a - b
NumSub(a, b) == NumAdd(a, NumNeg(b))

\* a > b  (false when either is NaN)
NumGt(a, b) == ~IsNaN(a) /\ ~IsNaN(b) /\ a.n * b.d > b.n * a.d

\* Math.min(a, b)
MathMin(a, b) ==
    IF IsNaN(a) \/ IsNaN(b) THEN NaN
    ELSE IF NumGt(a, b) THEN b ELSE a

\* Math.abs(a)
MathAbs(a) == [n |-> Abs(a.n), d |-> a.d]

\* a Point {x, y} of integer pointer coordinates as numbers
NumPoint(p) == [x |-> R(p.x), y |-> R(p.y)]

-----------------------------------------------------------------------------
(* hexToRgb, Testing.tsx:206-216 *)

\* parseInt of one hexadecimal digit character; -1 when it is no digit
HexDigit(c) ==
    CASE c = "0" -> 0 [] c = "1" -> 1 [] c = "2" -> 2 [] c = "3" -> 3
      [] c = "4" -> 4 [] c = "5" -> 5 [] c = "6" -> 6 [] c = "7" -> 7
      [] c = "8" -> 8 [] c = "9" -> 9
      [] c \in {"a", "A"} -> 10 [] c \in {"b", "B"} -> 11
      [] c \in {"c", "C"} -> 12 [] c \in {"d", "D"} -> 13
      [] c \in {"e", "E"} -> 14 [] c \in {"f", "F"} -> 15
      [] OTHER -> -1

\* hex.replace('#', ''): drops the first '#' of the character sequence
StripHash(hex) ==
    IF \E i \in 1..Len(hex) : hex[i] = "#"
    THEN LET i == CHOOSE k \in 1..Len(hex) :
                     hex[k] = "#" /\ \A j \in 1..(k - 1) : hex[j] # "#"
         IN  SubSeq(hex, 1, i - 1) \o SubSeq(hex, i + 1, Len(hex))
    ELSE hex

\* parseInt(s, 16) of a two-character substring: the longest prefix of digits
ParseHex2(s) ==
    IF Len(s) = 0 \/ HexDigit(s[1]) < 0 THEN NaN
    ELSE IF Len(s) = 1 \/ HexDigit(s[2]) < 0 THEN R(HexDigit(s[1]))
    ELSE R(16 * HexDigit(s[1]) + HexDigit(s[2]))

\* hex.substring(a, b) for 0 <= a <= b
Substring(s, a, b) ==
    SubSeq(s, (IF a > Len(s) THEN Len(s) ELSE a) + 1, IF b > Len(s) THEN Len(s) ELSE b)

\* variant: the channels are divided by 256
hexToRgb_Over256(hex) ==
    LET h == StripHash(hex)
    IN  [r |-> NumDiv(ParseHex2(Substring(h, 0, 2)), R(256)),
         g |-> NumDiv(ParseHex2(Substring(h, 2, 4)), R(256)),
         b |-> NumDiv(ParseHex2(Substring(h, 4, 6)), R(256))]

hexToRgb(hex) ==
    LET h == StripHash(hex)
    IN  [r |-> NumDiv(ParseHex2(Substring(h, 0, 2)), R(255)),
         g |-> NumDiv(ParseHex2(Substring(h, 2, 4)), R(255)),
         b |-> NumDiv(ParseHex2(Substring(h, 4, 6)), R(255))]

-----------------------------------------------------------------------------
(* transformCoordinates, Testing.tsx:219-254 *)

\* variant: the height-constrained branch scales the wrong overlay side
ScaledSize_WrongSide(overlayWidth, overlayHeight, pdfWidth, pdfHeight) ==
    LET overlayAspectRatio == NumDiv(overlayWidth, overlayHeight)
        pdfAspectRatio     == NumDiv(pdfWidth, pdfHeight)
    IN  IF NumGt(overlayAspectRatio, pdfAspectRatio)
        THEN [w |-> NumMul(overlayWidth, pdfAspectRatio), h |-> overlayHeight]
        ELSE [w |-> overlayWidth, h |-> NumDiv(overlayWidth, pdfAspectRatio)]

\* the letterboxed rendered size (scaledWidth, scaledHeight)
ScaledSize(overlayWidth, overlayHeight, pdfWidth, pdfHeight) ==
    LET overlayAspectRatio == NumDiv(overlayWidth, overlayHeight)
        pdfAspectRatio     == NumDiv(pdfWidth, pdfHeight)
    IN  IF NumGt(overlayAspectRatio, pdfAspectRatio)
        THEN [w |-> NumMul(overlayHeight, pdfAspectRatio), h |-> overlayHeight]
        ELSE [w |-> overlayWidth, h |-> NumDiv(overlayWidth, pdfAspectRatio)]

transformCoordinates(point, overlayWidth, overlayHeight, pdfWidth, pdfHeight, scale) ==
    LET s         == ScaledSize(overlayWidth, overlayHeight, pdfWidth, pdfHeight)
        offsetX   == NumDiv(NumSub(overlayWidth, s.w), R(2))
        offsetY   == NumDiv(NumSub(overlayHeight, s.h), R(2))
        adjustedX == NumSub(point.x, offsetX)
        adjustedY == NumSub(point.y, offsetY)
    IN  [x |-> NumMul(NumMul(NumDiv(adjustedX, s.w), pdfWidth), scale),
         y |-> NumSub(pdfHeight,
                      NumMul(NumMul(NumDiv(adjustedY, s.h), pdfHeight), scale))]

-----------------------------------------------------------------------------
(* The drawing operations of one export, Testing.tsx:272-361 *)

\* Math.min(overlayWidth / pdfWidth, overlayHeight / pdfHeight), lines 273-276
ExportScale(overlayWidth, overlayHeight, pdfWidth, pdfHeight) ==
    MathMin(NumDiv(overlayWidth, pdfWidth), NumDiv(overlayHeight, pdfHeight))

\* rgb(color.r, color.g, color.b) of an annotation colour
RgbOf(color) == hexToRgb(color)

\* a variant that takes the start corner as the rectangle's origin and the signed
\* differences as its size
DrawHighlight_FromStart(a, ow, oh, pw, ph, scale) ==
    LET start == transformCoordinates(NumPoint(a.start), ow, oh, pw, ph, scale)
        end   == transformCoordinates(NumPoint(a.end), ow, oh, pw, ph, scale)
    IN  << [op      |-> "rectangle",
            x       |-> start.x,
            y       |-> start.y,
            width   |-> NumSub(end.x, start.x),
            height  |-> NumSub(end.y, start.y),
            color   |-> RgbOf(a.color),
            opacity |-> Norm(35, 100)] >>

\* case 'highlight', lines 281-309
DrawHighlight(a, ow, oh, pw, ph, scale) ==
    LET start == transformCoordinates(NumPoint(a.start), ow, oh, pw, ph, scale)
        end   == transformCoordinates(NumPoint(a.end), ow, oh, pw, ph, scale)
    IN  << [op      |-> "rectangle",
            x       |-> MathMin(start.x, end.x),
            y       |-> MathMin(start.y, end.y),
            width   |-> MathAbs(NumSub(end.x, start.x)),
            height  |-> MathAbs(NumSub(end.y, start.y)),
            color   |-> RgbOf(a.color),
            opacity |-> Norm(35, 100)] >>

\* case 'text', lines 311-332
DrawTextNote(a, ow, oh, pw, ph, scale) ==
    LET position == transformCoordinates(NumPoint(a.position), ow, oh, pw, ph, scale)
    IN  << [op    |-> "text",
            text  |-> a.text,
            x     |-> position.x,
            y     |-> position.y,
            size  |-> NumDiv(NumMul(R(12), pw), ow),
            color |-> RgbOf(a.color)] >>

\* a variant in which lastPoint is never advanced: every line starts at the
\* first point
DrawPath_FromFirst(a, ow, oh, pw, ph, scale) ==
    [i \in 1..(Len(a.points) - 1) |->
        [op        |-> "line",
         start     |-> transformCoordinates(NumPoint(a.points[1]), ow, oh, pw, ph, scale),
         end       |-> transformCoordinates(NumPoint(a.points[i + 1]), ow, oh, pw, ph, scale),
         thickness |-> NumDiv(NumMul(R(a.width), pw), ow),
         color     |-> RgbOf(a.color)]]

\* case 'draw', lines 334-359: a line from each projected point to the next
DrawPath(a, ow, oh, pw, ph, scale) ==
    [i \in 1..(Len(a.points) - 1) |->
        [op        |-> "line",
         start     |-> transformCoordinates(NumPoint(a.points[i]), ow, oh, pw, ph, scale),
         end       |-> transformCoordinates(NumPoint(a.points[i + 1]), ow, oh, pw, ph, scale),
         thickness |-> NumDiv(NumMul(R(a.width), pw), ow),
         color     |-> RgbOf(a.color)]]

DrawAnnotation(a, ow, oh, pw, ph, scale) ==
    CASE a.type = "highlight" -> DrawHighlight(a, ow, oh, pw, ph, scale)
      [] a.type = "text"      -> DrawTextNote(a, ow, oh, pw, ph, scale)
      [] a.type = "draw"      -> DrawPath(a, ow, oh, pw, ph, scale)

RECURSIVE DrawAll(_, _, _, _, _, _)
DrawAll(annots, ow, oh, pw, ph, scale) ==
    IF annots = <<>> THEN <<>>
    ELSE DrawAnnotation(Head(annots), ow, oh, pw, ph, scale)
         \o DrawAll(Tail(annots), ow, oh, pw, ph, scale)

\* every page.draw* call of an export of `annots`, in call order
DrawOps(annots, overlaySize, pageSize) ==
    LET ow == R(overlaySize.width)
        oh == R(overlaySize.height)
        pw == R(pageSize.width)
        ph == R(pageSize.height)
    IN  DrawAll(annots, ow, oh, pw, ph, ExportScale(ow, oh, pw, ph))

-----------------------------------------------------------------------------
(* Initial state: the useState initialisers, Testing.tsx:42-74 *)

InitComponent ==
    /\ currentTool = "highlight"
    /\ annotations = <<>>
    /\ isDrawing = FALSE
    /\ currentPath = <<>>
    /\ highlightInfo = null
    /\ annotationColor = Yellow
    /\ isModalOpen = FALSE
    /\ modalText = ""
    /\ modalPosition = null
    /\ overlayDimensions = [width |-> 0, height |-> 0]
    /\ pdfPage \in PdfSizes
    /\ exports = <<>>
    /\ downloads = <<>>
    /\ gesture = "none"
    /\ events = 0
    /\ clearedInGesture = FALSE

Init ==
    /\ InitComponent
    /\ projCall = null

\* one more user event is handled
UserEvent ==
    /\ events < MaxEvents
    /\ events' = events + 1

\* the overlay can receive pointer events at `point`: it has an area containing
\* the point and is not covered by the dialog backdrop (Testing.tsx:413-424, 553-554)
PointerOver(point) ==
    /\ ~isModalOpen
    /\ overlayDimensions.width > 0
    /\ overlayDimensions.height > 0
    /\ point.x <= overlayDimensions.width
    /\ point.y <= overlayDimensions.height

-----------------------------------------------------------------------------
(* Viewport geometry, Testing.tsx:77-102 *)

\* updateOverlayDimensions on iframe 'load' or window 'resize'; a report of the
\* size already stored changes nothing and is a stuttering step
\* variant: a resize rescales the stored coordinates to the new size
UpdateOverlayDimensions_Renormalises(rect) ==
    LET old == overlayDimensions
        rescale(p) == IF old.width > 0 /\ old.height > 0
                      THEN [x |-> (p.x * rect.width) \div old.width,
                            y |-> (p.y * rect.height) \div old.height]
                      ELSE p
        moved(a) ==
            CASE a.type = "draw" ->
                   [a EXCEPT !.points = [k \in DOMAIN a.points |-> rescale(a.points[k])]]
              [] a.type = "highlight" ->
                   [a EXCEPT !.start = rescale(a.start), !.end = rescale(a.end)]
              [] a.type = "text" ->
                   [a EXCEPT !.position = rescale(a.position)]
    IN  /\ UserEvent
        /\ rect # overlayDimensions
        /\ overlayDimensions' = rect
        /\ annotations' = [i \in DOMAIN annotations |-> moved(annotations[i])]
        /\ UNCHANGED <<currentTool, isDrawing, currentPath, highlightInfo,
                       annotationColor, isModalOpen, modalText, modalPosition,
                       pdfPage, exports, downloads, gesture, projCall,
                       clearedInGesture>>

UpdateOverlayDimensions(rect) ==
    /\ UserEvent
    /\ rect # overlayDimensions
    /\ overlayDimensions' = rect
    /\ UNCHANGED <<captureVars, pdfPage, exports, downloads, gesture, projCall,
                   clearedInGesture>>

-----------------------------------------------------------------------------
(* Capture handlers, Testing.tsx:105-202 *)

\* the annotation records built by the handlers
\* variant: the page index is counted from zero
DrawingAnnotation_PageZero(points, color) ==
    [type |-> "draw", page |-> 0, points |-> points, color |-> color, width |-> 2]

DrawingAnnotation(points, color) ==
    [type |-> "draw", page |-> 1, points |-> points, color |-> color, width |-> 2]

HighlightAnnotation(start, end, color) ==
    [type |-> "highlight", page |-> 1, start |-> start, end |-> end, color |-> color]

TextAnnotation(position, text, color) ==
    [type |-> "text", page |-> 1, position |-> position, text |-> text, color |-> color]

\* variant: the new annotation is put in front of the previous ones
AppendAnnotation_Prepend(prev, a) == <<a>> \o prev

\* setAnnotations((prev) => [...prev, a])
AppendAnnotation(prev, a) == Append(prev, a)

\* variant: the path starts empty, the start point is not recorded
StartPath_Empty(point) == <<>>

\* setCurrentPath([point]), line 117
StartPath(point) == <<point>>

\* handleMouseDown, lines 105-131
HandleMouseDown(point) ==
    /\ UserEvent
    /\ PointerOver(point)
    /\ CASE currentTool = "draw" ->
              /\ isDrawing' = TRUE
              /\ currentPath' = StartPath(point)
              /\ UNCHANGED <<highlightInfo, isModalOpen, modalPosition>>
         [] currentTool = "highlight" ->
              /\ highlightInfo' = Some([start |-> point, current |-> point])
              /\ UNCHANGED <<isDrawing, currentPath, isModalOpen, modalPosition>>
         [] currentTool = "text" ->
              /\ modalPosition' = Some(point)
              /\ isModalOpen' = TRUE
              /\ UNCHANGED <<isDrawing, currentPath, highlightInfo>>
         [] OTHER ->
              UNCHANGED <<isDrawing, currentPath, highlightInfo, isModalOpen, modalPosition>>
    /\ gesture' = IF currentTool \in {"draw", "highlight"} THEN "down" ELSE "none"
    /\ clearedInGesture' = FALSE
    /\ UNCHANGED <<currentTool, annotations, annotationColor, modalText,
                   overlayDimensions, pdfPage, exports, downloads, projCall>>

\* variant: a point equal to the last one recorded is not recorded again
ExtendPath_Dedup(prev, point) ==
    IF prev # <<>> /\ prev[Len(prev)] = point THEN prev ELSE Append(prev, point)

\* setCurrentPath(prev => [...prev, point]), line 144
ExtendPath(prev, point) == Append(prev, point)

\* handleMouseMove, lines 133-153
HandleMouseMove(point) ==
    /\ UserEvent
    /\ PointerOver(point)
    /\ IF currentTool = "draw" /\ isDrawing
       THEN currentPath' = ExtendPath(currentPath, point)
       ELSE UNCHANGED currentPath
    /\ IF currentTool = "highlight" /\ highlightInfo # null
       THEN highlightInfo' = Some([highlightInfo[1] EXCEPT !.current = point])
       ELSE UNCHANGED highlightInfo
    /\ gesture' = IF gesture = "down" THEN "moved" ELSE gesture
    /\ UNCHANGED <<currentTool, annotations, isDrawing, annotationColor, isModalOpen,
                   modalText, modalPosition, overlayDimensions, pdfPage, exports,
                   downloads, projCall,
                   clearedInGesture>>

\* variant: the commit leaves the drawing flag and the path in place
CommitDrawing_KeepsPath ==
    /\ annotations' = AppendAnnotation(annotations,
                          DrawingAnnotation(currentPath, annotationColor))
    /\ UNCHANGED <<isDrawing, currentPath>>

\* the body of `if (currentTool === 'draw' && isDrawing)`, lines 157-168
CommitDrawing ==
    /\ annotations' = AppendAnnotation(annotations,
                          DrawingAnnotation(currentPath, annotationColor))
    /\ isDrawing' = FALSE
    /\ currentPath' = <<>>

\* the body of `if (currentTool === 'highlight' && highlightInfo)`, lines 172-182
CommitHighlight ==
    /\ annotations' = AppendAnnotation(annotations,
                          HighlightAnnotation(highlightInfo[1].start,
                                              highlightInfo[1].current,
                                              annotationColor))
    /\ highlightInfo' = null

\* handleMouseUp, lines 155-184; bound to onMouseUp and onMouseLeave (lines 422-423).
\* The two conditions exclude each other: currentTool has one value.
HandleMouseUp ==
    /\ UserEvent
    /\ overlayDimensions.width > 0
    /\ overlayDimensions.height > 0
    /\ IF currentTool = "draw" /\ isDrawing
       THEN CommitDrawing /\ UNCHANGED highlightInfo
       ELSE IF currentTool = "highlight" /\ highlightInfo # null
       THEN CommitHighlight /\ UNCHANGED <<isDrawing, currentPath>>
       ELSE UNCHANGED <<annotations, isDrawing, currentPath, highlightInfo>>
    /\ gesture' = CASE gesture \in {"down", "moved"} -> "ended"
                    [] gesture \in {"ended", "idle"} -> "idle"
                    [] OTHER -> gesture
    /\ UNCHANGED <<currentTool, annotationColor, isModalOpen, modalText, modalPosition,
                   overlayDimensions, pdfPage, exports, downloads, projCall,
                   clearedInGesture>>

\* the textarea's onChange, line 560
SetModalText(text) ==
    /\ UserEvent
    /\ isModalOpen
    /\ text # modalText
    /\ modalText' = text
    /\ UNCHANGED <<currentTool, annotations, isDrawing, currentPath, highlightInfo,
                   annotationColor, isModalOpen, modalPosition, overlayDimensions,
                   pdfPage, exports, downloads, gesture, projCall,
                   clearedInGesture>>

\* variant: the text is not tested
CanSubmit_IgnoresText == modalPosition # null

\* `if (modalText && modalPosition)`, line 187
CanSubmit == modalText # "" /\ modalPosition # null

\* handleModalSubmit, lines 186-202; the Add button exists while the dialog is open
HandleModalSubmit ==
    /\ UserEvent
    /\ isModalOpen
    /\ IF CanSubmit
       THEN /\ annotations' = AppendAnnotation(annotations,
                                  TextAnnotation(modalPosition[1], modalText,
                                                 annotationColor))
            /\ isModalOpen' = FALSE
            /\ modalText' = ""
            /\ modalPosition' = null
       ELSE UNCHANGED <<annotations, isModalOpen, modalText, modalPosition>>
    /\ UNCHANGED <<currentTool, isDrawing, currentPath, highlightInfo, annotationColor,
                   overlayDimensions, pdfPage, exports, downloads, gesture, projCall,
                   clearedInGesture>>

\* the Cancel button, lines 564-569
CancelModal ==
    /\ UserEvent
    /\ isModalOpen
    /\ isModalOpen' = FALSE
    /\ UNCHANGED <<currentTool, annotations, isDrawing, currentPath, highlightInfo,
                   annotationColor, modalText, modalPosition, overlayDimensions,
                   pdfPage, exports, downloads, gesture, projCall,
                   clearedInGesture>>

-----------------------------------------------------------------------------
(* Toolbar, Testing.tsx:496-548 *)

\* the tool buttons, lines 496-524; selecting the current tool is a stuttering step
SetCurrentTool(tool) ==
    /\ UserEvent
    /\ tool # currentTool
    /\ currentTool' = tool
    /\ gesture' = "none"
    /\ clearedInGesture' = FALSE
    /\ UNCHANGED <<annotations, isDrawing, currentPath, highlightInfo, annotationColor,
                   isModalOpen, modalText, modalPosition, overlayDimensions, pdfPage,
                   exports, downloads, projCall>>

\* the colour input, lines 529-534
SetAnnotationColor(color) ==
    /\ UserEvent
    /\ color # annotationColor
    /\ annotationColor' = color
    /\ UNCHANGED <<currentTool, annotations, isDrawing, currentPath, highlightInfo,
                   isModalOpen, modalText, modalPosition, overlayDimensions, pdfPage,
                   exports, downloads, gesture, projCall,
                   clearedInGesture>>

\* variant: the button removes the latest annotation only
ClearAll_RemovesLast ==
    /\ UserEvent
    /\ annotations # <<>>
    /\ annotations' = SubSeq(annotations, 1, Len(annotations) - 1)
    /\ clearedInGesture' = (clearedInGesture \/ gesture \in {"down", "moved"})
    /\ UNCHANGED <<currentTool, isDrawing, currentPath, highlightInfo, annotationColor,
                   isModalOpen, modalText, modalPosition, overlayDimensions, pdfPage,
                   exports, downloads, gesture, projCall>>

\* variant: the button also drops the gesture in progress
ClearAll_DropsGesture ==
    /\ UserEvent
    /\ annotations # <<>>
    /\ annotations' = <<>>
    /\ isDrawing' = FALSE
    /\ currentPath' = <<>>
    /\ highlightInfo' = null
    /\ clearedInGesture' = (clearedInGesture \/ gesture \in {"down", "moved"})
    /\ UNCHANGED <<currentTool, annotationColor, isModalOpen, modalText, modalPosition,
                   overlayDimensions, pdfPage, exports, downloads, gesture, projCall>>

\* the Clear All button, lines 537-542; on an empty sequence it is a stuttering step
ClearAll ==
    /\ UserEvent
    /\ annotations # <<>>
    /\ annotations' = <<>>
    /\ clearedInGesture' = (clearedInGesture \/ gesture \in {"down", "moved"})
    /\ UNCHANGED <<currentTool, isDrawing, currentPath, highlightInfo, annotationColor,
                   isModalOpen, modalText, modalPosition, overlayDimensions, pdfPage,
                   exports, downloads, gesture, projCall>>

-----------------------------------------------------------------------------
(* Export pipeline: downloadAnnotatedPDF, Testing.tsx:256-377.                *)
(* Each invocation is a record of `exports`; pc is the await it is suspended  *)
(* on ("fetch", "load", "save"), "done" after link.click(), or "caught" after *)
(* the catch block logged a failure.  The function closes over the            *)
(* `annotations` of the render whose button was clicked, so the record keeps  *)
(* that sequence.                                                             *)
(***************************************************************************)

\* the Download PDF button, lines 543-548: runs to the first await (lines 257-267)
DownloadAnnotatedPDF ==
    /\ UserEvent
    /\ Len(exports) < MaxExports
    /\ exports' = Append(exports,
                         [pc            |-> "fetch",
                          overlayWidth  |-> overlayDimensions.width,
                          overlayHeight |-> overlayDimensions.height,
                          annotations   |-> annotations])
    /\ UNCHANGED <<captureVars, overlayDimensions, pdfPage, downloads, gesture, projCall,
                   clearedInGesture>>

\* variant: the catch block hands the bytes built so far to the download link
ExportCaught_PartialFile(task) == [task EXCEPT !.pc = "done"]

\* the catch block, lines 374-376: the rejection is logged, the task ends,
\* nothing is thrown further
ExportCaught(task) == [task EXCEPT !.pc = "caught"]

\* fetch(pdfUrl).then(res => res.arrayBuffer()) resolves, lines 265-267
ExportFetched(i) ==
    /\ exports[i].pc = "fetch"
    /\ exports' = [exports EXCEPT ![i].pc = "load"]
    /\ UNCHANGED <<captureVars, overlayDimensions, pdfPage, downloads, gesture,
                   events, projCall,
                   clearedInGesture>>

\* PDFDocument.load resolves; the page is drawn on and save() starts, lines 268-364
ExportLoaded(i) ==
    /\ exports[i].pc = "load"
    /\ exports' = [exports EXCEPT ![i].pc = "save"]
    /\ UNCHANGED <<captureVars, overlayDimensions, pdfPage, downloads, gesture,
                   events, projCall,
                   clearedInGesture>>

\* pdfDoc.save() resolves; the bytes go to the download link, lines 364-373
ExportSaved(i) ==
    /\ exports[i].pc = "save"
    /\ exports' = [exports EXCEPT ![i].pc = "done"]
    /\ downloads' = Append(downloads, i)
    /\ UNCHANGED <<captureVars, overlayDimensions, pdfPage, gesture, events, projCall,
                   clearedInGesture>>

\* the awaited fetch, load or save rejects: control goes to the catch block
ExportFailed(i) ==
    /\ exports[i].pc \in {"fetch", "load", "save"}
    /\ exports' = [exports EXCEPT ![i] = ExportCaught(exports[i])]
    /\ UNCHANGED <<captureVars, overlayDimensions, pdfPage, downloads, gesture,
                   events, projCall,
                   clearedInGesture>>

\* variant: the drawing loop reads the component's current annotation state
Artifact_ReadsLatest(i) ==
    DrawOps(annotations,
            [width |-> exports[i].overlayWidth, height |-> exports[i].overlayHeight],
            pdfPage)

\* what export i drew on the page: the artifact's annotation content
Artifact(i) ==
    DrawOps(exports[i].annotations,
            [width |-> exports[i].overlayWidth, height |-> exports[i].overlayHeight],
            pdfPage)

-----------------------------------------------------------------------------
Next ==
    \/ \E rect \in OverlaySizes : UpdateOverlayDimensions(rect)
    \/ \E point \in Points : HandleMouseDown(point)
    \/ \E point \in Points : HandleMouseMove(point)
    \/ HandleMouseUp
    \/ \E text \in Texts : SetModalText(text)
    \/ HandleModalSubmit
    \/ CancelModal
    \/ \E tool \in Tools : SetCurrentTool(tool)
    \/ \E color \in Colors : SetAnnotationColor(color)
    \/ ClearAll
    \/ DownloadAnnotatedPDF
    \/ \E i \in 1..Len(exports) : ExportFetched(i)
    \/ \E i \in 1..Len(exports) : ExportLoaded(i)
    \/ \E i \in 1..Len(exports) : ExportSaved(i)
    \/ \E i \in 1..Len(exports) : ExportFailed(i)

Spec == Init /\ [][Next]_vars

-----------------------------------------------------------------------------
(* Direct calls of the projector: transformCoordinates applied to arguments   *)
(* drawn from bounded sets, zero dimensions included.                         *)

ProjDims == 0..MaxDim

\* fit / letterbox geometry as the glossary defines it: the page scaled by the
\* largest factor that fits inside the viewport, centred
FitRegion(ow, oh, pw, ph) ==
    LET k  == MathMin(NumDiv(ow, pw), NumDiv(oh, ph))
        rw == NumMul(pw, k)
        rh == NumMul(ph, k)
    IN  [width   |-> rw,
         height  |-> rh,
         offsetX |-> NumDiv(NumSub(ow, rw), R(2)),
         offsetY |-> NumDiv(NumSub(oh, rh), R(2))]

FitTopLeft(ow, oh, pw, ph) ==
    LET f == FitRegion(ow, oh, pw, ph) IN [x |-> f.offsetX, y |-> f.offsetY]

FitBottomRight(ow, oh, pw, ph) ==
    LET f == FitRegion(ow, oh, pw, ph)
    IN  [x |-> NumAdd(f.offsetX, f.width), y |-> NumAdd(f.offsetY, f.height)]

\* the points a direct call is made with
ProbePoints(ow, oh, pw, ph) ==
    {[x |-> R(0), y |-> R(0)], [x |-> ow, y |-> oh],
     FitTopLeft(ow, oh, pw, ph), FitBottomRight(ow, oh, pw, ph)}

\* scale multipliers: the default 1 and the one the export passes
ProbeScales(ow, oh, pw, ph) == {R(1), ExportScale(ow, oh, pw, ph)}

\* the argument tuples of the direct calls, with no result yet
ProjInputs ==
    UNION { { [point |-> point,
               overlayWidth |-> R(w), overlayHeight |-> R(h),
               pdfWidth |-> R(pw), pdfHeight |-> R(ph),
               scale |-> scale,
               result |-> null] :
                 point \in ProbePoints(R(w), R(h), R(pw), R(ph)),
                 scale \in ProbeScales(R(w), R(h), R(pw), R(ph)) } :
            w \in ProjDims, h \in ProjDims, pw \in ProjDims, ph \in ProjDims }

InitProj ==
    /\ InitComponent
    /\ \E call \in ProjInputs : projCall = Some(call)

\* the call is made and returns
ProjectPoint ==
    /\ projCall # null
    /\ projCall[1].result = null
    /\ LET c == projCall[1]
       IN  projCall' = Some([c EXCEPT !.result =
                               Some(transformCoordinates(c.point, c.overlayWidth,
                                                         c.overlayHeight, c.pdfWidth,
                                                         c.pdfHeight, c.scale))])
    /\ UNCHANGED <<captureVars, overlayDimensions, pdfPage, exports, downloads,
                   gesture, events, clearedInGesture>>

NextProj == ProjectPoint

SpecProj == InitProj /\ [][NextProj]_vars

-----------------------------------------------------------------------------
(* Direct runs of the export's drawing loop, Testing.tsx:272-361, over        *)
(* annotation sequences and sizes drawn from bounded sets.                    *)

\* longest freehand path drawn directly
MaxPathLen == 3

DrawPoints == {[x |-> x, y |-> y] : x \in {0, MaxDim}, y \in {0, MaxDim}}

\* the points freehand paths are built from; paths may repeat a point
PathPoints == {[x |-> 0, y |-> 0], [x |-> MaxDim, y |-> 0]}

PathsUpTo(n) == UNION {[1..k -> PathPoints] : k \in 1..n}

\* the same highlight committed with its corners in either order, and freehand
\* paths of every length from 1 to MaxPathLen
DrawnSequences ==
    {<<HighlightAnnotation(p, q, Yellow), HighlightAnnotation(q, p, Yellow)>> :
        p \in DrawPoints, q \in DrawPoints}
    \cup {<<DrawingAnnotation(points, Red)>> : points \in PathsUpTo(MaxPathLen)}

DrawInputs ==
    {[annotations |-> annots,
      overlaySize |-> [width |-> w, height |-> h],
      pageSize    |-> [width |-> pw, height |-> ph],
      result      |-> null] :
        annots \in DrawnSequences,
        w \in ProjDims, h \in ProjDims, pw \in ProjDims, ph \in ProjDims}

InitDraw ==
    /\ InitComponent
    /\ \E call \in DrawInputs : projCall = Some(call)

\* the forEach over the annotations runs to its end
DrawAnnotations ==
    /\ projCall # null
    /\ projCall[1].result = null
    /\ LET c == projCall[1]
       IN  projCall' = Some([c EXCEPT !.result =
                               Some(DrawOps(c.annotations, c.overlaySize, c.pageSize))])
    /\ UNCHANGED <<captureVars, overlayDimensions, pdfPage, exports, downloads,
                   gesture, events, clearedInGesture>>

NextDraw == DrawAnnotations

SpecDraw == InitDraw /\ [][NextDraw]_vars

-----------------------------------------------------------------------------
(* Direct calls of hexToRgb, Testing.tsx:206-216, on #RRGGBB strings.         *)

\* the digits the colour strings are built from: both ends of the range, a
\* decimal digit, a lower-case and an upper-case letter
ProbeDigits == {"0", "7", "a", "F"}

HexColours ==
    {<<"#", r1, r2, g1, g2, b1, b2>> :
        r1 \in ProbeDigits, r2 \in ProbeDigits, g1 \in ProbeDigits,
        g2 \in ProbeDigits, b1 \in ProbeDigits, b2 \in ProbeDigits}

InitColour ==
    /\ InitComponent
    /\ \E hex \in HexColours : projCall = Some([hex |-> hex, result |-> null])

\* the call is made and returns
ConvertColour ==
    /\ projCall # null
    /\ projCall[1].result = null
    /\ projCall' = Some([projCall[1] EXCEPT !.result = Some(hexToRgb(projCall[1].hex))])
    /\ UNCHANGED <<captureVars, overlayDimensions, pdfPage, exports, downloads,
                   gesture, events, clearedInGesture>>

NextColour == ConvertColour

SpecColour == InitColour /\ [][NextColour]_vars

-----------------------------------------------------------------------------
(* Properties *)

Positive(a) == IsFinite(a) /\ a.n > 0

\* a direct projector call has returned, with all four dimensions positive
ProjReturnedPositive ==
    /\ projCall # null
    /\ projCall[1].result # null
    /\ Positive(projCall[1].overlayWidth)
    /\ Positive(projCall[1].overlayHeight)
    /\ Positive(projCall[1].pdfWidth)
    /\ Positive(projCall[1].pdfHeight)

SameAspect(c) ==
    NumDiv(c.overlayWidth, c.overlayHeight) = NumDiv(c.pdfWidth, c.pdfHeight)

\* C9: with scale multiplier 1 and positive dimensions the projector maps the
\* top-left corner of the letterboxed rendered region to (0, documentHeight) and
\* its bottom-right corner to (documentWidth, 0); with equal aspect ratios these
\* corners are (0,0) and (viewportWidth, viewportHeight); and for a 200x100
\* viewport over a 100x100 page the point (50,0) maps to (0,100).
C9_CornerMapping ==
    /\ transformCoordinates([x |-> R(50), y |-> R(0)], R(200), R(100), R(100), R(100), R(1))
         = [x |-> R(0), y |-> R(100)]
    /\ (ProjReturnedPositive /\ projCall[1].scale = R(1)) =>
         LET c   == projCall[1]
             out == c.result[1]
             tl  == FitTopLeft(c.overlayWidth, c.overlayHeight, c.pdfWidth, c.pdfHeight)
             br  == FitBottomRight(c.overlayWidth, c.overlayHeight, c.pdfWidth, c.pdfHeight)
         IN  /\ c.point = tl => out = [x |-> R(0), y |-> c.pdfHeight]
             /\ c.point = br => out = [x |-> c.pdfWidth, y |-> R(0)]
             /\ SameAspect(c) =>
                   /\ c.point = [x |-> R(0), y |-> R(0)]
                        => out = [x |-> R(0), y |-> c.pdfHeight]
                   /\ c.point = [x |-> c.overlayWidth, y |-> c.overlayHeight]
                        => out = [x |-> c.pdfWidth, y |-> R(0)]

\* a returned call with scale 1 on the top-left corner of a rendered region that is
\* letterboxed horizontally (the corner is not the viewport's origin)
C9_Witness ==
    /\ ProjReturnedPositive
    /\ projCall[1].scale = R(1)
    /\ ~SameAspect(projCall[1])
    /\ LET c == projCall[1]
       IN  /\ c.point = FitTopLeft(c.overlayWidth, c.overlayHeight, c.pdfWidth, c.pdfHeight)
           /\ Positive(c.point.x)

-----------------------------------------------------------------------------
(* Export fidelity *)

\* where a viewport point lies on the page when the rendered region is mapped
\* onto the page: a fraction fx across and fy down goes to (fx*pw, ph - fy*ph)
IdealProjection(p, ow, oh, pw, ph) ==
    LET f  == FitRegion(ow, oh, pw, ph)
        fx == NumDiv(NumSub(p.x, f.offsetX), f.width)
        fy == NumDiv(NumSub(p.y, f.offsetY), f.height)
    IN  [x |-> NumMul(fx, pw), y |-> NumSub(ph, NumMul(fy, ph))]

NumLeq(a, b) == ~IsNaN(a) /\ ~IsNaN(b) /\ ~NumGt(a, b)

InsideRendered(p, ow, oh, pw, ph) ==
    LET f == FitRegion(ow, oh, pw, ph)
    IN  /\ NumLeq(f.offsetX, p.x) /\ NumLeq(p.x, NumAdd(f.offsetX, f.width))
        /\ NumLeq(f.offsetY, p.y) /\ NumLeq(p.y, NumAdd(f.offsetY, f.height))

InsidePage(q, pw, ph) ==
    /\ NumLeq(R(0), q.x) /\ NumLeq(q.x, pw)
    /\ NumLeq(R(0), q.y) /\ NumLeq(q.y, ph)

\* the viewport points of an annotation, in the order the export projects them
AnnotationPoints(a) ==
    CASE a.type = "highlight" -> <<a.start, a.end>>
      [] a.type = "text"      -> <<a.position>>
      [] a.type = "draw"      -> a.points

\* the page positions the export computed for annotation a, in the same order
ExportedPoints(a, ow, oh, pw, ph) ==
    LET scale == ExportScale(ow, oh, pw, ph)
    IN  [k \in 1..Len(AnnotationPoints(a)) |->
           transformCoordinates(NumPoint(AnnotationPoints(a)[k]), ow, oh, pw, ph, scale)]

\* export i was delivered from a viewport and a page of positive size
DeliveredPositive(i) ==
    /\ \E k \in 1..Len(downloads) : downloads[k] = i
    /\ exports[i].overlayWidth > 0
    /\ exports[i].overlayHeight > 0

\* C1: in every delivered artifact made from positive viewport and page sizes,
\* every annotation point inside the letterboxed rendered region is drawn at the
\* page position with the same relative location, hence inside the page.
C1_ExportFidelity ==
    \A i \in 1..Len(exports) :
      DeliveredPositive(i) =>
        LET ow == R(exports[i].overlayWidth)
            oh == R(exports[i].overlayHeight)
            pw == R(pdfPage.width)
            ph == R(pdfPage.height)
        IN  \A j \in 1..Len(exports[i].annotations) :
              LET a   == exports[i].annotations[j]
                  pts == AnnotationPoints(a)
                  out == ExportedPoints(a, ow, oh, pw, ph)
              IN  \A k \in 1..Len(pts) :
                    InsideRendered(NumPoint(pts[k]), ow, oh, pw, ph) =>
                      /\ out[k] = IdealProjection(NumPoint(pts[k]), ow, oh, pw, ph)
                      /\ InsidePage(out[k], pw, ph)

\* every coordinate of a drawing operation is a finite number
FiniteOp(o) ==
    CASE o.op = "rectangle" ->
           IsFinite(o.x) /\ IsFinite(o.y) /\ IsFinite(o.width) /\ IsFinite(o.height)
      [] o.op = "text" -> IsFinite(o.x) /\ IsFinite(o.y) /\ IsFinite(o.size)
      [] o.op = "line" ->
           /\ IsFinite(o.start.x) /\ IsFinite(o.start.y)
           /\ IsFinite(o.end.x) /\ IsFinite(o.end.y)
           /\ IsFinite(o.thickness)

\* C10: an export whose viewport or page has zero width or height is stopped
\* before the projection stage is left (it never reaches save or delivery), and
\* no delivered artifact holds a non-finite coordinate.
C10_DegenerateGeometryRejected ==
    \A i \in 1..Len(exports) :
      /\ (exports[i].overlayWidth = 0 \/ exports[i].overlayHeight = 0
            \/ pdfPage.width = 0 \/ pdfPage.height = 0)
           => exports[i].pc \notin {"save", "done"}
      /\ exports[i].pc = "done" =>
           \A k \in 1..Len(Artifact(i)) : FiniteOp(Artifact(i)[k])

-----------------------------------------------------------------------------
(* Annotation sequence *)

IsPrefix(s, t) == Len(s) <= Len(t) /\ SubSeq(t, 1, Len(s)) = s

AppendsOne(s, t) == Len(t) = Len(s) + 1 /\ IsPrefix(s, t)

\* C2: every step leaves the committed sequence as it was or appends exactly one
\* annotation at its end; only the Clear All step empties it.
C2_AppendOnly ==
    [][ \/ annotations' = annotations
        \/ AppendsOne(annotations, annotations')
        \/ ClearAll /\ annotations' = <<>> ]_vars

\* a second annotation has been appended behind a different first one
C2_Witness ==
    /\ Len(annotations) = 2
    /\ annotations[1] # annotations[2]

\* C7: a freehand path and a highlight are never in progress together.
C7_OneInProgress ==
    ~((isDrawing \/ currentPath # <<>>) /\ highlightInfo # null)

-----------------------------------------------------------------------------
(* Export failure *)

ExportStep ==
    \/ DownloadAnnotatedPDF
    \/ \E i \in 1..Len(exports) :
          ExportFetched(i) \/ ExportLoaded(i) \/ ExportSaved(i) \/ ExportFailed(i)

\* C3: a rejected fetch, load or save ends the invocation in the catch block
\* with nothing delivered and nothing thrown; no export step touches the
\* annotation sequence or the capture state; and an artifact is delivered only
\* by the step in which save resolved, after fetch and load resolved.
C3_AllOrNothingExport ==
    [][ /\ ExportStep => UNCHANGED captureVars
        /\ \A i \in 1..Len(exports) :
              /\ ExportFailed(i) =>
                    /\ downloads' = downloads
                    /\ exports'[i].pc = "caught"
              /\ exports[i].pc = "caught" =>
                    /\ exports'[i] = exports[i]
                    /\ \A k \in 1..Len(downloads') : downloads'[k] # i
              /\ (exports[i].pc # "done" /\ exports'[i].pc = "done") =>
                    /\ exports[i].pc = "save"
                    /\ downloads' = Append(downloads, i)
        /\ downloads' # downloads =>
              \E i \in 1..Len(exports) :
                 exports[i].pc = "save" /\ downloads' = Append(downloads, i) ]_vars

\* with annotations committed, one export ended in the catch block and delivered
\* nothing, while another one delivered its artifact
C3_Witness ==
    /\ annotations # <<>>
    /\ \E i \in 1..Len(exports) :
          /\ exports[i].pc = "caught"
          /\ exports[i].annotations # <<>>
          /\ \A k \in 1..Len(downloads) : downloads[k] # i
    /\ \E k \in 1..Len(downloads) : exports[downloads[k]].pc = "done"

-----------------------------------------------------------------------------
(* Gestures *)

PointerDown == \E point \in Points : HandleMouseDown(point)

PointerMove == \E point \in Points : HandleMouseMove(point)

\* C4: with the draw or highlight tool selected since the pointer-down, the
\* first pointer-up or pointer-leave of the gesture appends exactly one
\* annotation, and every further pointer-up or pointer-leave before the next
\* pointer-down appends nothing.
C4_OneAnnotationPerGesture ==
    [][ HandleMouseUp =>
          /\ gesture \in {"down", "moved"} => AppendsOne(annotations, annotations')
          /\ gesture \in {"ended", "idle"} => annotations' = annotations ]_vars

\* a gesture was ended by pointer-up, a pointer-leave followed, and the sequence
\* holds the one annotation of that gesture
C4_Witness ==
    /\ gesture = "idle"
    /\ Len(annotations) = 1

\* an annotation that holds the start point of its gesture only
Degenerate(a) ==
    \/ a.type = "draw" /\ Len(a.points) = 1
    \/ a.type = "highlight" /\ a.start = a.end

\* C5 as claimed: pointer-down and pointer-move never change the committed
\* sequence, and a gesture ended with no pointer-move in between commits nothing.
C5_EmptyGestureCommitsNothing ==
    [][ /\ (PointerDown \/ PointerMove) => annotations' = annotations
        /\ (HandleMouseUp /\ gesture = "down") => annotations' = annotations ]_vars

\* C5 as amended: pointer-down and pointer-move never change the committed
\* sequence; a gesture ended with no pointer-move in between commits exactly one
\* annotation, which holds the start point only (a one-point path, or a highlight
\* whose corners coincide); a pointer-up or pointer-leave with nothing in
\* progress commits nothing.
C5_EmptyGestureCommitsStartPoint ==
    [][ /\ (PointerDown \/ PointerMove) => annotations' = annotations
        /\ (HandleMouseUp /\ gesture = "down") =>
              /\ AppendsOne(annotations, annotations')
              /\ Degenerate(annotations'[Len(annotations')])
        /\ (HandleMouseUp /\ ~isDrawing /\ highlightInfo = null) =>
              annotations' = annotations ]_vars

\* a draw gesture with no pointer-move was ended and its one-point path committed
C5_Witness ==
    /\ gesture = "ended"
    /\ annotations # <<>>
    /\ annotations[Len(annotations)].type = "draw"
    /\ Len(annotations[Len(annotations)].points) = 1

\* C6: an in-progress path or highlight leaves the in-progress state only by
\* being committed: a step that replaces or drops it appends it to the sequence.
C6_NoSilentDiscard ==
    [][ /\ (isDrawing /\ ~IsPrefix(currentPath, currentPath')) =>
              annotations' = Append(annotations,
                                    DrawingAnnotation(currentPath, annotationColor))
        /\ (highlightInfo # null
             /\ (highlightInfo' = null
                  \/ highlightInfo'[1].start # highlightInfo[1].start)) =>
              annotations' = Append(annotations,
                                    HighlightAnnotation(highlightInfo[1].start,
                                                        highlightInfo[1].current,
                                                        annotationColor)) ]_vars

-----------------------------------------------------------------------------
(* Text notes *)

\* C8: a pointer-down with the text tool records the point and opens the dialog
\* without changing the sequence; Add with empty text, and Cancel, commit
\* nothing; Add with non-empty text appends exactly one text note holding the
\* entered text at the recorded point, which is the point of the latest text click
\* (only a text click sets it, only a commit clears it).
C8_TextCommitOnConfirm ==
    [][ /\ \A point \in Points :
              (HandleMouseDown(point) /\ currentTool = "text") =>
                 /\ modalPosition' = Some(point)
                 /\ isModalOpen'
                 /\ annotations' = annotations
        /\ CancelModal => annotations' = annotations
        /\ (HandleModalSubmit /\ modalText = "") =>
              annotations' = annotations /\ isModalOpen'
        /\ (HandleModalSubmit /\ modalText # "") =>
              /\ modalPosition # null
              /\ AppendsOne(annotations, annotations')
              /\ annotations'[Len(annotations')].type = "text"
              /\ annotations'[Len(annotations')].position = modalPosition[1]
              /\ annotations'[Len(annotations')].text = modalText
        /\ modalPosition' # modalPosition =>
              \/ \E point \in Points :
                    /\ HandleMouseDown(point)
                    /\ currentTool = "text"
                    /\ modalPosition' = Some(point)
              \/ HandleModalSubmit /\ modalPosition' = null ]_vars

\* a text click opened the dialog, text was entered and confirmed: the note is
\* the last annotation, the dialog is closed and its point cleared
C8_Witness ==
    /\ ~isModalOpen
    /\ modalPosition = null
    /\ annotations # <<>>
    /\ annotations[Len(annotations)].type = "text"
    /\ annotations[Len(annotations)].text = "note"

-----------------------------------------------------------------------------
\* a direct run of the drawing loop that has finished
Drawn == projCall # null /\ projCall[1].result # null

AllOfType(annots, type) == \A i \in DOMAIN annots : annots[i].type = type

PositiveSize(size) == size.width > 0 /\ size.height > 0

\* C11: a highlight committed with start = p, end = q and the same highlight
\* committed with start = q, end = p are drawn as the same rectangle (same x, y,
\* width, height, colour and opacity), whatever the viewport and page sizes;
\* where the sizes are positive the rectangle's width and height are not
\* negative.
C11_CornerOrderIndependent ==
    Drawn /\ AllOfType(projCall[1].annotations, "highlight") =>
        LET c   == projCall[1]
            ops == c.result[1]
        IN  /\ Len(ops) = Len(c.annotations)
            /\ \A i, j \in DOMAIN c.annotations :
                    /\ c.annotations[i].start = c.annotations[j].end
                    /\ c.annotations[i].end = c.annotations[j].start
                    /\ c.annotations[i].color = c.annotations[j].color
                    => ops[i] = ops[j]
            /\ PositiveSize(c.overlaySize) /\ PositiveSize(c.pageSize) =>
                    \A i \in DOMAIN ops :
                        /\ ops[i].op = "rectangle"
                        /\ NumLeq(R(0), ops[i].width)
                        /\ NumLeq(R(0), ops[i].height)

\* a highlight dragged up and to the left and its mirror image were drawn, on
\* positive sizes, as one and the same rectangle of positive width and height
C11_Witness ==
    /\ Drawn
    /\ AllOfType(projCall[1].annotations, "highlight")
    /\ PositiveSize(projCall[1].overlaySize) /\ PositiveSize(projCall[1].pageSize)
    /\ LET a   == projCall[1].annotations
           ops == projCall[1].result[1]
       IN  /\ a[1].start.x > a[1].end.x /\ a[1].start.y > a[1].end.y
           /\ a[2].start = a[1].end /\ a[2].end = a[1].start
           /\ ops[1] = ops[2]
           /\ Positive(ops[1].width) /\ Positive(ops[1].height)

\* C12: a freehand path of n >= 1 points is drawn as exactly n - 1 lines, the
\* i-th joining the projections of points i and i + 1 under the export's sizes
\* and scale; a path of one point is drawn as no line at all, and the loop
\* still runs to its end.
C12_PathSegments ==
    Drawn /\ AllOfType(projCall[1].annotations, "draw")
          /\ Len(projCall[1].annotations) = 1 =>
        LET c     == projCall[1]
            a     == c.annotations[1]
            ops   == c.result[1]
            ow    == R(c.overlaySize.width)
            oh    == R(c.overlaySize.height)
            pw    == R(c.pageSize.width)
            ph    == R(c.pageSize.height)
            scale == ExportScale(ow, oh, pw, ph)
            proj(point) == transformCoordinates(NumPoint(point), ow, oh, pw, ph, scale)
        IN  /\ Len(a.points) >= 1
            /\ Len(ops) = Len(a.points) - 1
            /\ \A i \in 1..(Len(a.points) - 1) :
                    /\ ops[i].op = "line"
                    /\ ops[i].start = proj(a.points[i])
                    /\ ops[i].end = proj(a.points[i + 1])

\* a path of three points, the second away from the first, was drawn as two
\* lines on positive sizes
C12_Witness ==
    /\ Drawn
    /\ AllOfType(projCall[1].annotations, "draw")
    /\ PositiveSize(projCall[1].overlaySize) /\ PositiveSize(projCall[1].pageSize)
    /\ LET a == projCall[1].annotations[1]
       IN  /\ Len(a.points) = 3
           /\ a.points[2] # a.points[1]
           /\ Len(projCall[1].result[1]) = 2

-----------------------------------------------------------------------------
\* export i is between its invocation and its completion or failure
InFlight(i) == exports[i].pc \in {"fetch", "load", "save"}

\* C13: in no reachable state are two export invocations in flight at once (a
\* request made while another is outstanding is rejected or supersedes it).
C13_SingleInFlight ==
    Cardinality({i \in DOMAIN exports : InFlight(i)}) <= 1

\* the viewport size export i was invoked with
InvokedSize(i) ==
    [width |-> exports[i].overlayWidth, height |-> exports[i].overlayHeight]

\* C14: an export draws exactly the committed sequence as it was when the
\* export was invoked, in the same order: the sequence it holds is the one of
\* the invocation, no later step (a commit or a clear-all while the export is
\* suspended included) changes it, and the artifact handed over when save()
\* resolves holds the drawing of that sequence.
C14_SnapshotIsolation ==
    [][/\ DownloadAnnotatedPDF =>
              exports'[Len(exports')].annotations = annotations
       /\ \A i \in DOMAIN exports :
              /\ i \in DOMAIN exports'
              /\ exports'[i].annotations = exports[i].annotations
              /\ ExportSaved(i) =>
                     Artifact(i) = DrawOps(exports[i].annotations, InvokedSize(i),
                                           pdfPage)]_vars

\* an export invoked with a non-empty sequence has drawn its page and is
\* suspended on save() while the component's sequence has become another one
C14_Witness ==
    \E i \in DOMAIN exports :
        /\ exports[i].pc = "save"
        /\ exports[i].annotations # <<>>
        /\ exports[i].annotations # annotations
        /\ Artifact(i) = DrawOps(exports[i].annotations, InvokedSize(i), pdfPage)
        /\ Artifact(i) # DrawOps(annotations, InvokedSize(i), pdfPage)

\* C15: Clear All on a sequence of N >= 1 annotations leaves the empty
\* sequence; an export invoked on the empty sequence holds no annotation, each
\* of its awaits can resolve, and when save() resolves the artifact is
\* delivered with no drawing operation made on the page.
C15_ClearThenExport ==
    [][/\ ClearAll => Len(annotations) >= 1 /\ annotations' = <<>>
       /\ DownloadAnnotatedPDF /\ annotations = <<>> =>
              exports'[Len(exports')].annotations = <<>>
       /\ \A i \in DOMAIN exports :
              exports[i].annotations = <<>> =>
                  /\ exports[i].pc = "fetch" => ENABLED ExportFetched(i)
                  /\ exports[i].pc = "load" => ENABLED ExportLoaded(i)
                  /\ exports[i].pc = "save" => ENABLED ExportSaved(i)
                  /\ ExportSaved(i) =>
                         /\ downloads' = Append(downloads, i)
                         /\ Artifact(i)' = <<>>]_vars

\* a first export was invoked on a non-empty sequence; the sequence was then
\* cleared and a second export, invoked on the empty sequence, delivered an
\* artifact with no drawing operation
C15_Witness ==
    /\ Len(exports) = 2
    /\ exports[1].annotations # <<>>
    /\ exports[2].annotations = <<>>
    /\ exports[2].pc = "done"
    /\ \E k \in DOMAIN downloads : downloads[k] = 2
    /\ Artifact(2) = <<>>
    /\ annotations = <<>>

-----------------------------------------------------------------------------
\* the sixteen hexadecimal digits in order of value, and their capitals
LowerDigits == <<"0", "1", "2", "3", "4", "5", "6", "7", "8", "9",
                 "a", "b", "c", "d", "e", "f">>
UpperDigits == <<"0", "1", "2", "3", "4", "5", "6", "7", "8", "9",
                 "A", "B", "C", "D", "E", "F">>

DigitValue(c) ==
    (CHOOSE k \in 1..16 : LowerDigits[k] = c \/ UpperDigits[k] = c) - 1

\* the 8-bit value of channel k (1 = red, 2 = green, 3 = blue) of #RRGGBB
ChannelValue(hex, k) == 16 * DigitValue(hex[2 * k]) + DigitValue(hex[2 * k + 1])

RgbTriple(r, g, b) == [r |-> R(r), g |-> R(g), b |-> R(b)]

\* C16: for every colour #RRGGBB hexToRgb returns each channel as its 8-bit
\* value divided by 255, a number from 0 to 1; #FF0000 gives (1, 0, 0),
\* #000000 gives (0, 0, 0) and #FFFFFF gives (1, 1, 1).
C16_ColourConversion ==
    projCall # null /\ projCall[1].result # null =>
        LET hex == projCall[1].hex
            rgb == projCall[1].result[1]
        IN  /\ rgb.r = Norm(ChannelValue(hex, 1), 255)
            /\ rgb.g = Norm(ChannelValue(hex, 2), 255)
            /\ rgb.b = Norm(ChannelValue(hex, 3), 255)
            /\ \A v \in {rgb.r, rgb.g, rgb.b} : NumLeq(R(0), v) /\ NumLeq(v, R(1))
            /\ hex = <<"#", "F", "F", "0", "0", "0", "0">> => rgb = RgbTriple(1, 0, 0)
            /\ hex = <<"#", "0", "0", "0", "0", "0", "0">> => rgb = RgbTriple(0, 0, 0)
            /\ hex = <<"#", "F", "F", "F", "F", "F", "F">> => rgb = RgbTriple(1, 1, 1)

\* #FF0000 was converted, to (1, 0, 0)
C16_Witness ==
    /\ projCall # null
    /\ projCall[1].hex = <<"#", "F", "F", "0", "0", "0", "0">>
    /\ projCall[1].result = Some(RgbTriple(1, 0, 0))

-----------------------------------------------------------------------------
WellFormed(a) ==
    /\ a.page = 1
    /\ a.type = "draw" => Len(a.points) >= 1 /\ a.width = 2
    /\ a.type = "text" => a.text # ""

\* C17: in every reachable state every committed freehand path has at least
\* one point and stroke width 2, every committed text note has a non-empty
\* text, and every committed annotation has page index 1.
C17_WellFormedAnnotations ==
    \A i \in DOMAIN annotations : WellFormed(annotations[i])

\* a freehand path has been committed after an annotation of another type
C17_Witness ==
    /\ Len(annotations) = 2
    /\ annotations[1].type # "draw"
    /\ annotations[2].type = "draw"
    /\ WellFormed(annotations[1]) /\ WellFormed(annotations[2])

-----------------------------------------------------------------------------
Resize == \E rect \in OverlaySizes : UpdateOverlayDimensions(rect)

\* C18: a resize changes the viewport geometry only: the committed annotations
\* (their stored coordinates included) and the gesture in progress stay as
\* they were.  An export keeps the viewport size read at its invocation,
\* whatever happens later, and the artifact handed over when save() resolves
\* holds all its annotations projected with that size.
C18_ResizeDoesNotRenormalise ==
    [][/\ Resize =>
              /\ overlayDimensions' # overlayDimensions
              /\ UNCHANGED <<annotations, isDrawing, currentPath, highlightInfo,
                             currentTool, gesture>>
       /\ DownloadAnnotatedPDF =>
              exports'[Len(exports')].overlayWidth = overlayDimensions.width
              /\ exports'[Len(exports')].overlayHeight = overlayDimensions.height
       /\ \A i \in DOMAIN exports :
              /\ exports'[i].overlayWidth = exports[i].overlayWidth
              /\ exports'[i].overlayHeight = exports[i].overlayHeight
              /\ ExportSaved(i) =>
                     Artifact(i) = DrawOps(exports[i].annotations, InvokedSize(i),
                                           pdfPage)]_vars

\* the same committed annotations were exported before and after a resize: the
\* second export, delivered, drew them at other positions than the first
C18_Witness ==
    /\ Len(exports) = 2
    /\ exports[1].annotations # <<>>
    /\ exports[2].annotations = exports[1].annotations
    /\ annotations = exports[1].annotations
    /\ InvokedSize(1) # InvokedSize(2)
    /\ InvokedSize(2) = overlayDimensions
    /\ exports[2].pc = "done"
    /\ Artifact(2) # Artifact(1)

\* the draw tool has been held since the pointer-down of the gesture in progress
DrawGestureHeld == currentTool = "draw" /\ gesture \in {"down", "moved"}

\* C19: with the draw tool held throughout a gesture, the pointer-down starts
\* the path with its point, every pointer-move appends its point (a point equal
\* to the previous one included), no other step touches the path, and the
\* gesture-end commits a freehand path with exactly these points, leaving the
\* in-progress path empty and drawing inactive.
C19_RawPathCommitted ==
    [][/\ \A point \in Points :
              /\ HandleMouseDown(point) /\ currentTool = "draw" =>
                     currentPath' = <<point>> /\ isDrawing'
              /\ HandleMouseMove(point) /\ DrawGestureHeld =>
                     /\ currentPath' = currentPath \o <<point>>
                     /\ Len(currentPath') = Len(currentPath) + 1
                     /\ isDrawing'
       /\ HandleMouseUp /\ DrawGestureHeld =>
              /\ Len(annotations') = Len(annotations) + 1
              /\ annotations'[Len(annotations')].type = "draw"
              /\ annotations'[Len(annotations')].points = currentPath
              /\ currentPath' = <<>>
              /\ ~isDrawing'
       /\ DrawGestureHeld /\ DrawGestureHeld' /\ events' = events + 1
          /\ ~HandleMouseUp
          /\ ~(\E point \in Points : HandleMouseDown(point) \/ HandleMouseMove(point)) =>
              UNCHANGED <<currentPath, isDrawing>>]_vars

\* a gesture whose move repeated the point of its pointer-down was committed
\* with both points, and the in-progress path is empty, drawing inactive
C19_Witness ==
    /\ gesture = "ended"
    /\ currentTool = "draw"
    /\ annotations # <<>>
    /\ LET a == annotations[Len(annotations)]
       IN  /\ a.type = "draw"
           /\ Len(a.points) = 3
           /\ a.points[2] = a.points[1]
           /\ a.points[3] # a.points[2]
    /\ currentPath = <<>>
    /\ ~isDrawing

\* C20: Clear All empties the committed sequence and leaves the capture state
\* alone; clicked while a draw or highlight gesture is in progress it keeps the
\* in-progress path or highlight, and the gesture-end that follows commits it,
\* so that the sequence then holds exactly that one annotation, with the whole
\* path (or the start corner and the latest point) of the gesture.
C20_ClearKeepsGesture ==
    [][/\ ClearAll =>
              /\ annotations' = <<>>
              /\ UNCHANGED <<currentTool, isDrawing, currentPath, highlightInfo,
                             annotationColor, isModalOpen, modalText, modalPosition,
                             gesture>>
       /\ HandleMouseUp /\ clearedInGesture /\ gesture \in {"down", "moved"} =>
              /\ annotations = <<>>
              /\ Len(annotations') = 1
              /\ currentTool = "draw" =>
                     /\ annotations'[1].type = "draw"
                     /\ annotations'[1].points = currentPath
                     /\ Len(currentPath) >= 1
              /\ currentTool = "highlight" =>
                     /\ annotations'[1].type = "highlight"
                     /\ annotations'[1].start = highlightInfo[1].start
                     /\ annotations'[1].end = highlightInfo[1].current]_vars

\* Clear All was clicked during a gesture, and the gesture has ended: the
\* sequence holds the one annotation of that gesture
C20_Witness ==
    /\ clearedInGesture
    /\ gesture = "ended"
    /\ Len(annotations) = 1
    /\ annotations[1].type \in {"draw", "highlight"}

====
